---- MODULE Spec2Model ----
(***************************************************************************)
(* Retrieval layer of the RAG notebooks:                                   *)
(*   src/03_chunk_size_selectorKemi.ipynb  (chunk_text,                    *)
(*        chunk_text_with_headers, cosine_similarity, semantic_search,     *)
(*        retrieve_relevant_chunks, evaluate_response, the embedding loop) *)
(*   src/04_context_enriched_ragKemi.ipynb (chunk_text, cosine_similarity, *)
(*        context_enriched_search)                                         *)
(*                                                                         *)
(* One call is in flight at a time.  pc = "idle" is the state before a     *)
(* call, pc = "done" the state after it returned or raised; "outcome"      *)
(* says which.  ConcurrentSpec alone has two searches in flight, each      *)
(* with its own position tpc[t].  Python indices are kept 0-based; TLA+    *)
(* sequences are 1-based, so element p (0-based) of a list s is s[p + 1].  *)
(*                                                                         *)
(* Cosine similarities are exact rationals <<num, den>> (den > 0): the     *)
(* model abstracts IEEE rounding, and the embedding vectors are chosen     *)
(* with integer norms so that dot / (norm * norm) is exact.                *)
(***************************************************************************)
EXTENDS Integers, Sequences, FiniteSets, TLC

\* ---------------------------------------------------------------- bounds
MaxTextLen == 4     \* longest document text
MaxSize == 3        \* largest chunk size n and largest overlap
NegRange == 1       \* n and overlap go down to -NegRange
MaxCorpus == 3      \* most chunks in a corpus handed to a search
MaxK == 4           \* largest k of a search
MaxContext == 2     \* largest context_size

Alphabet == {"a", "b"}
Texts == UNION {[1..len -> Alphabet] : len \in 0..MaxTextLen}
Sizes == (0 - NegRange)..MaxSize
Overlaps == (0 - NegRange)..MaxSize
\* what the header collaborator can answer
HeaderReplies == {"H1", "H2"}

\* Embedding vectors the collaborator can answer with: one dimension, every
\* norm a whole number, none of norm zero.
Vectors == {<<1, 0>>, <<0, 1>>, <<-1, 0>>, <<3, 4>>}
HeaderVectors == {<<0, 1>>, <<3, 4>>}
\* the text (and header) stored at 0-based position p of a corpus; positions
\* two apart hold equal strings
CorpusText(p) == IF p % 2 = 0 THEN <<"a">> ELSE <<"b">>
CorpusHeader(p) == IF p % 2 = 0 THEN "H1" ELSE "H2"
EmbeddingLists == UNION {[1..len -> Vectors] : len \in 0..MaxCorpus}
ChunkRecords ==
    UNION {[1..len -> [embedding : Vectors, header_embedding : HeaderVectors]] :
           len \in 0..MaxCorpus}

\* A corpus whose stored embeddings are not all of the query's dimension:
\* the vectors of Vectors and one of three components, none of norm zero.
MixedVectors == Vectors \cup {<<1, 0, 0>>}
MixedEmbeddingLists == UNION {[1..len -> MixedVectors] : len \in 0..MaxCorpus}
MixedChunkRecords ==
    UNION {[1..len -> [embedding : {<<1, 0>>, <<1, 0, 0>>},
                       header_embedding : {<<0, 1>>, <<0, 1, 0>>}]] :
           len \in 0..MaxCorpus}
\* arguments of a direct cosine_similarity call: also the zero vector and
\* vectors whose norm is no whole number
AnyVectors ==
    MixedVectors \cup {<<0, 0>>, <<1, 1>>, <<-1, -1>>, <<1, 1, 1>>,
                       <<-1, -1, -1>>, <<-3, -4>>}

\* the two threads of a concurrent run, and what they search with
Threads == {1, 2}
ThreadCorpora ==
    UNION {[1..len -> [embedding : {<<1, 0>>, <<0, 1>>},
                       header_embedding : HeaderVectors]] :
           len \in 1..(MaxCorpus - 1)}
ThreadQueries == {<<1, 0>>, <<0, 1>>}
ThreadK == 1..(MaxK - 2)
ThreadContext == 0..(MaxContext - 1)

VARIABLES
    pc,            \* "idle" | "loop" | "embedding" | "ingest_text" |
                   \* "ingest_header" | "eval_faith" | "eval_rel" |
                   \* "concurrent" | "done"
    fn,            \* the function being called, "none" before a call
    outcome,       \* "none" | "returned" | the exception that ended the call
    text, n, overlap,   \* arguments of chunk_text / chunk_text_with_headers
    i,             \* current value of the range iterator of the chunking loop
    chunks,        \* the accumulator list `chunks` of the chunking loop
    headerCalls,   \* the generate_chunk_header calls made, in order: the
                   \* argument and the reply ("raised" for an exception)
    query_embedding,    \* the embedding collaborator's answer for the query
    text_chunks, embeddings,  \* corpus arguments of context_enriched_search
                   \* and retrieve_relevant_chunks; in the embedding loop of
                   \* 03 its input list of dicts and the records it stores
    corpus,        \* `chunks` argument of semantic_search (list of dicts)
    k, context_size,    \* search arguments
    result,        \* returned list, as 0-based positions of the corpus elements
    embedCalls,    \* number of create_embeddings calls made by the search
    text_embedding,     \* local of the ingestion loop: the text's embedding
    embedLog,      \* create_embeddings calls of the ingestion loop, in order
    cos_vec1, cos_vec2, \* arguments of a direct cosine_similarity call
    similarity,    \* what that call returned, <<>> when it returned nothing
    faith_reply, rel_reply,  \* message.content of the two evaluator replies
    faith_score, rel_score,  \* locals of evaluate_response, <<>> when unset
    \* two searches running at once over `corpus`; each is a function of the
    \* thread: its position, function, arguments, locals and returned value
    tpc, tfn, tquery, tk, tcontext, tscores, tresult, toutcome

chunkVars == <<text, n, overlap, i, chunks, headerCalls>>
ingestVars == <<text_embedding, embedLog>>
cosVars == <<cos_vec1, cos_vec2, similarity>>
evalVars == <<faith_reply, rel_reply, faith_score, rel_score>>
threadVars == <<tpc, tfn, tquery, tk, tcontext, tscores, tresult, toutcome>>
searchVars == <<query_embedding, text_chunks, embeddings, corpus, k,
                context_size, result, embedCalls, ingestVars, cosVars,
                evalVars, threadVars>>
vars == <<pc, fn, outcome, chunkVars, searchVars>>

\* ------------------------------------------------------- Python builtins
\* s[lo:hi] for a list or str s: negative bounds count from the end, and
\* both bounds are clipped to 0..len(s).
PyClip(x, len) ==
    IF x < 0 THEN (IF x + len < 0 THEN 0 ELSE x + len)
    ELSE (IF x > len THEN len ELSE x)

PySlice(s, lo, hi) ==
    SubSeq(s, PyClip(lo, Len(s)) + 1, PyClip(hi, Len(s)))

\* range(0, stop, step) raises ValueError when step is 0
RangeRaises_NonPositive(step) == step <= 0
RangeRaises(step) == step = 0

\* whether the iterator of range(0, stop, step), standing at cur, yields cur
RangeHasNext_Inclusive(cur, stop, step) ==
    IF step > 0 THEN cur <= stop ELSE cur > stop
RangeHasNext(cur, stop, step) ==
    IF step > 0 THEN cur < stop ELSE cur > stop

\* the step of the chunking loop: n - overlap
Step_PlusOne(size, ov) == size - ov + 1
Step_IgnoringOverlap(size, ov) == size
Step(size, ov) == size - ov

PyMax(a, b) == IF a >= b THEN a ELSE b
PyMin(a, b) == IF a <= b THEN a ELSE b

\* ------------------------------------------------------------- chunker
\* the slice appended by one loop iteration: text[i:i + n]
ChunkAt_ShortByOne(t, cur, size) == PySlice(t, cur, cur + size - 1)
ChunkAt_FromNext(t, cur, size) == PySlice(t, cur + 1, cur + size)
ChunkAt(t, cur, size) == PySlice(t, cur, cur + size)

\* chunks = []; for i in range(0, len(text), n - overlap): ...
\* The range object is built first: a zero step raises before any iteration.
\* the list chunk_text(text, n, overlap) returns when range() accepts the
\* step: text[cur:cur + n] for every cur of range(0, len(text), n - overlap)
RECURSIVE ChunkListFrom(_, _, _, _)
ChunkListFrom(t, cur, size, ov) ==
    IF RangeHasNext(cur, Len(t), Step(size, ov))
    THEN <<ChunkAt(t, cur, size)>> \o ChunkListFrom(t, cur + Step(size, ov), size, ov)
    ELSE <<>>
chunk_text(t, size, ov) == ChunkListFrom(t, 0, size, ov)

ChunkLoopEnter(f, t, size, ov) ==
    /\ fn' = f
    /\ text' = t
    /\ n' = size
    /\ overlap' = ov
    /\ chunks' = <<>>
    /\ i' = 0
    /\ IF RangeRaises(Step(size, ov))
         THEN pc' = "done" /\ outcome' = "ValueError"
         ELSE pc' = "loop" /\ outcome' = "none"
    /\ UNCHANGED <<headerCalls, searchVars>>

chunk_text_Call ==
    /\ pc = "idle"
    /\ \E t \in Texts, size \in Sizes, ov \in Overlaps :
        ChunkLoopEnter("chunk_text", t, size, ov)

\* chunks.append(text[i:i + n])
chunk_text_Iter ==
    /\ pc = "loop"
    /\ fn = "chunk_text"
    /\ RangeHasNext(i, Len(text), Step(n, overlap))
    /\ chunks' = Append(chunks, ChunkAt(text, i, n))
    /\ i' = i + Step(n, overlap)
    /\ UNCHANGED <<pc, fn, outcome, text, n, overlap, headerCalls, searchVars>>

\* return chunks
chunk_text_Return ==
    /\ pc = "loop"
    /\ fn = "chunk_text"
    /\ ~RangeHasNext(i, Len(text), Step(n, overlap))
    /\ pc' = "done"
    /\ outcome' = "returned"
    /\ UNCHANGED <<fn, chunkVars, searchVars>>

\* {"header": header, "text": chunk}
HeaderRecord_HeaderPrepended(header, chunk) ==
    [header |-> header, text |-> <<header>> \o chunk]
HeaderRecord(header, chunk) == [header |-> header, text |-> chunk]

chunk_text_with_headers_Call ==
    /\ pc = "idle"
    /\ \E t \in Texts, size \in Sizes, ov \in Overlaps :
        ChunkLoopEnter("chunk_text_with_headers", t, size, ov)

\* chunk = text[i:i + n]; header = generate_chunk_header(chunk);
\* chunks.append({"header": header, "text": chunk})
chunk_text_with_headers_Iter ==
    /\ pc = "loop"
    /\ fn = "chunk_text_with_headers"
    /\ RangeHasNext(i, Len(text), Step(n, overlap))
    /\ LET chunk == ChunkAt(text, i, n) IN
       \E header \in HeaderReplies :
          /\ headerCalls' = Append(headerCalls,
                                   [chunk |-> chunk, reply |-> header])
          /\ chunks' = Append(chunks, HeaderRecord(header, chunk))
    /\ i' = i + Step(n, overlap)
    /\ UNCHANGED <<pc, fn, outcome, text, n, overlap, searchVars>>

\* generate_chunk_header raises (the completion call fails): nothing in
\* chunk_text_with_headers catches it, so the call ends with the exception.
chunk_text_with_headers_HeaderFails ==
    /\ pc = "loop"
    /\ fn = "chunk_text_with_headers"
    /\ RangeHasNext(i, Len(text), Step(n, overlap))
    /\ headerCalls' = Append(headerCalls, [chunk |-> ChunkAt(text, i, n),
                                            reply |-> "raised"])
    /\ pc' = "done"
    /\ outcome' = "HeaderError"
    /\ UNCHANGED <<fn, text, n, overlap, i, chunks, searchVars>>

chunk_text_with_headers_Return ==
    /\ pc = "loop"
    /\ fn = "chunk_text_with_headers"
    /\ ~RangeHasNext(i, Len(text), Step(n, overlap))
    /\ pc' = "done"
    /\ outcome' = "returned"
    /\ UNCHANGED <<fn, chunkVars, searchVars>>

NextChunk ==
    \/ chunk_text_Call
    \/ chunk_text_Iter
    \/ chunk_text_Return
    \/ chunk_text_with_headers_Call
    \/ chunk_text_with_headers_Iter
    \/ chunk_text_with_headers_HeaderFails
    \/ chunk_text_with_headers_Return

\* ---------------------------------------------------- similarity engine
RECURSIVE DotFrom(_, _, _)
DotFrom(vec1, vec2, p) ==
    IF p > Len(vec1) THEN 0 ELSE vec1[p] * vec2[p] + DotFrom(vec1, vec2, p + 1)
\* np.dot of two 1-d arrays of equal length
Dot(vec1, vec2) == DotFrom(vec1, vec2, 1)

\* np.linalg.norm: the square root of the sum of squares (a whole number for
\* every vector of Vectors)
Norm(vec) ==
    LET sq == Dot(vec, vec) IN CHOOSE r \in 0..sq : r * r = sq

\* A similarity score is the rational num/den; kind "nan" is the float nan
\* that 0.0/0.0 gives, kind "ValueError" the exception np.dot raises for
\* arrays of different length.
Score(kind, num, den) == [kind |-> kind, num |-> num, den |-> den]

cosine_similarity_Truncating(vec1, vec2) ==
    LET len == PyMin(Len(vec1), Len(vec2))
        a == SubSeq(vec1, 1, len)
        b == SubSeq(vec2, 1, len)
        norms == Norm(a) * Norm(b)
    IN IF norms = 0 THEN Score("nan", 0, 0)
       ELSE Score("num", Dot(a, b), norms)
\* np.dot(vec1, vec2) / (np.linalg.norm(vec1) * np.linalg.norm(vec2))
cosine_similarity(vec1, vec2) ==
    IF Len(vec1) # Len(vec2) THEN Score("ValueError", 0, 0)
    ELSE LET norms == Norm(vec1) * Norm(vec2) IN
         IF norms = 0 THEN Score("nan", 0, 0)
         ELSE Score("num", Dot(vec1, vec2), norms)

\* ---- the same expression with the rounding of binary floating point
\* A positive float is m * 2^e with 2^(FloatBits-1) <= m < 2^FloatBits.  The
\* source computes in float64 (53 bits); the significand is narrowed here
\* so that every intermediate product fits the model's integers.  Each
\* operation returns the float nearest to the exact result, ties to even.
FloatBits == 13

RECURSIVE Pow2(_)
Pow2(e) == IF e <= 0 THEN 1 ELSE 2 * Pow2(e - 1)

\* number of binary digits of x > 0
RECURSIVE BitLen(_)
BitLen(x) == IF x <= 0 THEN 0 ELSE 1 + BitLen(x \div 2)

Abs(x) == IF x < 0 THEN 0 - x ELSE x

\* the float nearest to (M + d) * 2^E, where M > 0 is an integer and d is 0
\* (sticky = FALSE) or some fraction strictly between 0 and 1 (sticky = TRUE)
FloatRound(M, sticky, E) ==
    LET s == BitLen(M) - FloatBits IN
    IF s <= 0 THEN [m |-> M * Pow2(0 - s), e |-> E + s]
    ELSE LET q == M \div Pow2(s)
             r == M % Pow2(s)
             half == Pow2(s - 1)
             up == r > half \/ (r = half /\ (sticky \/ q % 2 = 1))
             m1 == IF up THEN q + 1 ELSE q
         IN IF m1 = Pow2(FloatBits)
            THEN [m |-> Pow2(FloatBits - 1), e |-> E + s + 1]
            ELSE [m |-> m1, e |-> E + s]

\* the smallest j with x * 4^j >= 4^FloatBits
RECURSIVE SqrtShift(_, _)
SqrtShift(x, j) ==
    IF x * Pow2(2 * j) >= Pow2(2 * FloatBits) THEN j ELSE SqrtShift(x, j + 1)

\* np.sqrt of an integer x > 0: the integer root of x * 4^j has FloatBits + 1
\* digits, which with the sticky flag decides the rounding
FloatSqrt(x) ==
    LET j == SqrtShift(x, 0)
        N == x * Pow2(2 * j)
        root == CHOOSE r \in Pow2(FloatBits)..(Pow2(FloatBits + 1) - 1) :
                    r * r <= N /\ N < (r + 1) * (r + 1)
    IN FloatRound(root, root * root # N, 0 - j)

\* np.linalg.norm(vec): sqrt of the (exact, integer) sum of squares
FloatNorm(vec) == FloatSqrt(Dot(vec, vec))

\* a * b of two floats
FloatMul(a, b) == FloatRound(a.m * b.m, FALSE, a.e + b.e)

\* x / b for an integer x > 0 and a float b: the quotient is taken with
\* FloatBits + 2 digits or more, the remainder is the sticky flag
FloatDiv(x, b) ==
    LET t == FloatBits + 2 + BitLen(b.m) - BitLen(x)
        num == x * Pow2(t)
    IN FloatRound(num \div b.m, num % b.m # 0, 0 - t - b.e)

\* the float sign * m * 2^e as a score
FloatScore(sign, f) ==
    IF f.e >= 0 THEN Score("num", sign * f.m * Pow2(f.e), 1)
    ELSE Score("num", sign * f.m, Pow2(0 - f.e))

\* np.dot(vec1, vec2) / (np.linalg.norm(vec1) * np.linalg.norm(vec2)) for
\* integer vectors of any norm
cosine_similarity_rounded(vec1, vec2) ==
    IF Len(vec1) # Len(vec2) THEN Score("ValueError", 0, 0)
    ELSE IF Dot(vec1, vec1) = 0 \/ Dot(vec2, vec2) = 0 THEN Score("nan", 0, 0)
    ELSE LET dot == Dot(vec1, vec2)
             norms == FloatMul(FloatNorm(vec1), FloatNorm(vec2))
         IN IF dot = 0 THEN Score("num", 0, 1)
            ELSE FloatScore(IF dot < 0 THEN 0 - 1 ELSE 1,
                            FloatDiv(Abs(dot), norms))

\* float comparison a < b: false whenever either side is nan
ScoreLess(a, b) ==
    /\ a.kind = "num" /\ b.kind = "num"
    /\ a.num * b.den < b.num * a.den

\* (sim_text + sim_header) / 2; an exception of either cosine_similarity
\* call is the outcome of the statement
AvgSimilarity(a, b) ==
    IF a.kind = "num" /\ b.kind = "num"
    THEN Score("num", a.num * b.den + b.num * a.den, 2 * a.den * b.den)
    ELSE IF a.kind = "ValueError" \/ b.kind = "ValueError"
    THEN Score("ValueError", 0, 0)
    ELSE Score("nan", 0, 0)

\* list.sort(key=lambda x: x[1], reverse=True) on a list of (item, score)
\* pairs whose scores are numbers: descending by score, pairs of equal score
\* keeping their order (the sort is stable, also with reverse=True).
RECURSIVE InsertDesc_Unstable(_, _)
InsertDesc_Unstable(sorted, x) ==
    IF sorted = <<>> THEN <<x>>
    ELSE IF ~ScoreLess(x.score, Head(sorted).score) THEN <<x>> \o sorted
    ELSE <<Head(sorted)>> \o InsertDesc_Unstable(Tail(sorted), x)
RECURSIVE InsertDesc(_, _)
InsertDesc(sorted, x) ==
    IF sorted = <<>> THEN <<x>>
    ELSE IF ScoreLess(Head(sorted).score, x.score) THEN <<x>> \o sorted
    ELSE <<Head(sorted)>> \o InsertDesc(Tail(sorted), x)

RECURSIVE SortDescending_TiesReversed(_)
SortDescending_TiesReversed(pairs) ==
    IF pairs = <<>> THEN <<>>
    ELSE InsertDesc(SortDescending_TiesReversed(Tail(pairs)), Head(pairs))
RECURSIVE SortDescending(_)
SortDescending(pairs) ==
    IF pairs = <<>> THEN <<>>
    ELSE LET front == SortDescending(SubSeq(pairs, 1, Len(pairs) - 1))
             last == pairs[Len(pairs)]
         IN InsertDesc(front, last)

\* range(start, end) as a list
PyRangeList(start, end) ==
    IF end <= start THEN <<>> ELSE [j \in 1..(end - start) |-> start + j - 1]

\* create_embeddings calls made by a scoring loop over the stored items: the
\* loop body reads the stored embeddings and calls cosine_similarity only
ScoringLoopEmbeddingCalls_PerChunk(items) == Len(items)
ScoringLoopEmbeddingCalls(items) == 0

\* ------------------------------------------- context_enriched_search (04)
\* similarity_scores after the loop: (i, cosine(query, embeddings[i]))
SimilarityScores(q, embs) ==
    [p \in 1..Len(embs) |->
        [index |-> p - 1, score |-> cosine_similarity(q, embs[p])]]

\* similarity_scores.sort(...); top_index = similarity_scores[0][0]
TopIndex_Last(q, embs) ==
    SortDescending(SimilarityScores(q, embs))[Len(embs)].index
TopIndex(q, embs) == SortDescending(SimilarityScores(q, embs))[1].index

\* start = max(0, top_index - context_size)
WindowStart_Unclipped(top, cs) == top - cs
WindowStart(top, cs) == PyMax(0, top - cs)

\* end = min(len(text_chunks), top_index + context_size + 1)
WindowEnd_Exclusive(top, cs, len) == PyMin(len, top + cs)
WindowEnd(top, cs, len) == PyMin(len, top + cs + 1)

\* an exception of cosine_similarity inside a scoring loop ends the loop and
\* the function with it
ScoreRaises(scores) ==
    \E p \in 1..Len(scores) : scores[p].score.kind = "ValueError"

\* The body of context_enriched_search once the query is embedded as q.
\* A ValueError of cosine_similarity in the scoring loop propagates;
\* similarity_scores[0] raises IndexError when embeddings is empty.  The
\* parameter k is not read.
context_enriched_search_EmptyOk(q, tchunks, embs, kk, cs) ==
    IF ScoreRaises(SimilarityScores(q, embs))
    THEN [outcome |-> "ValueError", result |-> <<>>]
    ELSE IF Len(embs) = 0
    THEN [outcome |-> "returned", result |-> <<>>]
    ELSE LET top_index == TopIndex(q, embs) IN
         [outcome |-> "returned",
          result |-> PyRangeList(WindowStart(top_index, cs),
                                 WindowEnd(top_index, cs, Len(tchunks)))]
context_enriched_search(q, tchunks, embs, kk, cs) ==
    IF ScoreRaises(SimilarityScores(q, embs))
    THEN [outcome |-> "ValueError", result |-> <<>>]
    ELSE IF Len(embs) = 0
    THEN [outcome |-> "IndexError", result |-> <<>>]
    ELSE LET top_index == TopIndex(q, embs) IN
         [outcome |-> "returned",
          result |-> PyRangeList(WindowStart(top_index, cs),
                                 WindowEnd(top_index, cs, Len(tchunks)))]

\* the call is made and create_embeddings(query) is issued
\* The list arguments as the call leaves them.  similarity_scores is a new
\* local list of (index, score) pairs and the only list that is sorted;
\* text_chunks is only sliced and embeddings only iterated.
context_enriched_search_text_chunks(q, tchunks, embs) == tchunks
context_enriched_search_embeddings(q, tchunks, embs) == embs

context_enriched_search_CallWith(lists) ==
    /\ pc = "idle"
    /\ \E embs \in lists, kk \in 1..MaxK, cs \in 0..MaxContext :
        /\ embeddings' = embs
        /\ text_chunks' = [p \in 1..Len(embs) |-> CorpusText(p - 1)]
        /\ k' = kk
        /\ context_size' = cs
    /\ fn' = "context_enriched_search"
    /\ pc' = "embedding"
    /\ embedCalls' = embedCalls + 1
    /\ UNCHANGED <<ingestVars, cosVars, evalVars,
                   outcome, chunkVars, query_embedding, corpus, result,
                   threadVars>>

context_enriched_search_Call ==
    context_enriched_search_CallWith(EmbeddingLists)
context_enriched_search_MixedCall ==
    context_enriched_search_CallWith(MixedEmbeddingLists)

\* create_embeddings(query) answered; the rest of the function runs to its
\* end.
context_enriched_search_Embedded ==
    /\ pc = "embedding"
    /\ fn = "context_enriched_search"
    /\ \E q \in Vectors :
        /\ query_embedding' = q
        /\ LET ret == context_enriched_search(q, text_chunks, embeddings, k,
                                               context_size)
           IN outcome' = ret.outcome /\ result' = ret.result
        /\ text_chunks' = context_enriched_search_text_chunks(q, text_chunks,
                                                              embeddings)
        /\ embeddings' = context_enriched_search_embeddings(q, text_chunks,
                                                            embeddings)
    /\ pc' = "done"
    /\ UNCHANGED <<ingestVars, cosVars, evalVars,
                   fn, chunkVars, corpus, k, context_size, threadVars>>
    /\ embedCalls' = embedCalls + ScoringLoopEmbeddingCalls(embeddings)

\* --------------------------------------------------- semantic_search (03)
\* similarities after the loop: (chunk, (sim_text + sim_header) / 2); a
\* chunk is named by its 0-based position in `chunks`
CombinedScores(q, cks) ==
    [p \in 1..Len(cks) |->
        [index |-> p - 1,
         score |-> AvgSimilarity(cosine_similarity(q, cks[p].embedding),
                                 cosine_similarity(q, cks[p].header_embedding))]]

\* similarities[:k]
TopK_OneMore(sorted, kk) == PySlice(sorted, 0, kk + 1)
TopK(sorted, kk) == PySlice(sorted, 0, kk)

\* The body of semantic_search once the query is embedded as q: the
\* returned chunks, each named by its position in `chunks`.  A ValueError
\* of cosine_similarity in the scoring loop propagates.
semantic_search(q, cks, kk) ==
    LET similarities == CombinedScores(q, cks) IN
    IF ScoreRaises(similarities)
    THEN [outcome |-> "ValueError", result |-> <<>>]
    ELSE LET top == TopK(SortDescending(similarities), kk)
         IN [outcome |-> "returned",
             result |-> [j \in 1..Len(top) |-> top[j].index]]

\* The `chunks` argument as the call leaves it.  `similarities` is a new
\* local list of (chunk, score) pairs that refer to the chunk dicts; it is
\* the list that is sorted and sliced, `chunks` is only iterated.
semantic_search_chunks_SortedInPlace(q, cks, kk) ==
    LET similarities == CombinedScores(q, cks) IN
    IF ScoreRaises(similarities) THEN cks
    ELSE LET sorted == SortDescending(similarities)
         IN [j \in 1..Len(cks) |-> cks[sorted[j].index + 1]]
semantic_search_chunks(q, cks, kk) == cks

semantic_search_CallWith(records) ==
    /\ pc = "idle"
    /\ \E cks \in records, kk \in 1..MaxK :
        /\ corpus' = [p \in 1..Len(cks) |->
                        [header |-> CorpusHeader(p - 1),
                         text |-> CorpusText(p - 1),
                         embedding |-> cks[p].embedding,
                         header_embedding |-> cks[p].header_embedding]]
        /\ k' = kk
    /\ fn' = "semantic_search"
    /\ pc' = "embedding"
    /\ embedCalls' = embedCalls + 1
    /\ UNCHANGED <<ingestVars, cosVars, evalVars,
                   outcome, chunkVars, query_embedding, text_chunks,
                   embeddings, context_size, result, threadVars>>

semantic_search_Call == semantic_search_CallWith(ChunkRecords)
semantic_search_MixedCall == semantic_search_CallWith(MixedChunkRecords)

\* create_embeddings(query) answered; scoring, sort and slice follow
semantic_search_Embedded ==
    /\ pc = "embedding"
    /\ fn = "semantic_search"
    /\ \E q \in Vectors :
        /\ query_embedding' = q
        /\ LET ret == semantic_search(q, corpus, k)
           IN outcome' = ret.outcome /\ result' = ret.result
        /\ corpus' = semantic_search_chunks(q, corpus, k)
    /\ pc' = "done"
    /\ UNCHANGED <<ingestVars, cosVars, evalVars,
                   fn, chunkVars, text_chunks, embeddings, k,
                   context_size, threadVars>>
    /\ embedCalls' = embedCalls + ScoringLoopEmbeddingCalls(corpus)

\* -------------------------------------------- retrieve_relevant_chunks (03)
\* s[::-1]
PyReverse(s) == [j \in 1..Len(s) |-> s[Len(s) + 1 - j]]

\* [cosine_similarity(query_embedding, emb) for emb in chunk_embeddings]
Similarities(q, embs) == [p \in 1..Len(embs) |-> cosine_similarity(q, embs[p])]

\* every ordering of the elements of a finite set, as a sequence
RECURSIVE IndexOrders(_)
IndexOrders(S) ==
    IF S = {} THEN {<<>>}
    ELSE UNION {{<<x>> \o perm : perm \in IndexOrders(S \ {x})} : x \in S}

\* np.argsort(similarities): the 0-based indices in an order that makes the
\* scores ascending.  The default kind ("quicksort") is not a stable sort,
\* so the order among equal scores is any.
ArgsortResults(sims) ==
    {perm \in IndexOrders(0..(Len(sims) - 1)) :
        \A a, b \in 1..Len(sims) :
            (a < b) => ~ScoreLess(sims[perm[b] + 1], sims[perm[a] + 1])}

\* np.argsort(similarities)[-k:][::-1], for one answer of argsort
TopIndices(sorted, kk) == PyReverse(PySlice(sorted, 0 - kk, Len(sorted)))

\* The body of retrieve_relevant_chunks once the query is embedded as q:
\* the ways the call can end, one per answer of argsort.  A ValueError of
\* cosine_similarity in the list comprehension propagates.
retrieve_relevant_chunks(q, embs, kk) ==
    LET similarities == Similarities(q, embs) IN
    IF \E p \in 1..Len(embs) : similarities[p].kind = "ValueError"
    THEN {[outcome |-> "ValueError", result |-> <<>>]}
    ELSE {[outcome |-> "returned", result |-> TopIndices(sorted, kk)] :
            sorted \in ArgsortResults(similarities)}

\* np.argsort(sims)[::-1][:top_k] of the inline redefinition
TopIdx(sorted, kk) == PySlice(PyReverse(sorted), 0, kk)

\* The list arguments as the call leaves them: np.argsort returns a new
\* array, the comprehensions build new lists.
retrieve_relevant_chunks_text_chunks(q, tchunks, embs) == tchunks
retrieve_relevant_chunks_chunk_embeddings(q, tchunks, embs) == embs

retrieve_relevant_chunks_CallWith(lists) ==
    /\ pc = "idle"
    /\ \E embs \in lists, kk \in 1..MaxK :
        /\ embeddings' = embs
        /\ text_chunks' = [p \in 1..Len(embs) |-> CorpusText(p - 1)]
        /\ k' = kk
    /\ fn' = "retrieve_relevant_chunks"
    /\ pc' = "embedding"
    /\ embedCalls' = embedCalls + 1
    /\ UNCHANGED <<ingestVars, cosVars, evalVars,
                   outcome, chunkVars, query_embedding, corpus, context_size,
                   result, threadVars>>

retrieve_relevant_chunks_Call ==
    retrieve_relevant_chunks_CallWith(EmbeddingLists)
retrieve_relevant_chunks_MixedCall ==
    retrieve_relevant_chunks_CallWith(MixedEmbeddingLists)

\* create_embeddings([query])[0] answered; scoring, argsort and the list
\* comprehension follow
retrieve_relevant_chunks_Embedded ==
    /\ pc = "embedding"
    /\ fn = "retrieve_relevant_chunks"
    /\ \E q \in Vectors :
        /\ query_embedding' = q
        /\ \E ret \in retrieve_relevant_chunks(q, embeddings, k) :
            outcome' = ret.outcome /\ result' = ret.result
        /\ text_chunks' = retrieve_relevant_chunks_text_chunks(q, text_chunks,
                                                               embeddings)
        /\ embeddings' = retrieve_relevant_chunks_chunk_embeddings(q,
                                                    text_chunks, embeddings)
    /\ pc' = "done"
    /\ UNCHANGED <<ingestVars, cosVars, evalVars,
                   fn, chunkVars, corpus, k, context_size, embedCalls,
                   threadVars>>

\* np.random.rand: a vector with no negative component
RandomVectors == {v \in Vectors : \A p \in 1..Len(v) : v[p] >= 0}

\* The inline redefinition of retrieve_relevant_chunks: the query embedding
\* is a random vector, no collaborator is called, and the whole call is one
\* step.  The scores come from the library's cosine_similarity, which for
\* vectors of non-zero norm is the same quotient.
retrieve_relevant_chunks_inline ==
    /\ pc = "idle"
    /\ \E embs \in EmbeddingLists, kk \in 1..MaxK, q \in RandomVectors :
        /\ embeddings' = embs
        /\ text_chunks' = [p \in 1..Len(embs) |-> CorpusText(p - 1)]
        /\ k' = kk
        /\ query_embedding' = q
        /\ \E sorted \in ArgsortResults(Similarities(q, embs)) :
            result' = TopIdx(sorted, kk)
    /\ fn' = "retrieve_relevant_chunks_inline"
    /\ outcome' = "returned"
    /\ pc' = "done"
    /\ UNCHANGED <<ingestVars, cosVars, evalVars,
                   chunkVars, corpus, context_size, embedCalls, threadVars>>

\* ------------------------------------------------- ingestion loop (03)
\* what the header collaborator left in text_chunks: a list of
\* {"header", "text"} dicts
HeaderChunkLists ==
    {[p \in 1..len |-> [header |-> CorpusHeader(p - 1),
                        text |-> CorpusText(p - 1)]] : len \in 0..MaxCorpus}

\* {"header": chunk["header"], "text": chunk["text"],
\*  "embedding": text_embedding, "header_embedding": header_embedding}
IngestRecord_Swapped(chunk, te, he) ==
    [header |-> chunk.header, text |-> chunk.text,
     embedding |-> he, header_embedding |-> te]
IngestRecord(chunk, te, he) ==
    [header |-> chunk.header, text |-> chunk.text,
     embedding |-> te, header_embedding |-> he]

\* embeddings = []; for chunk in tqdm(text_chunks, ...):
\* One record is appended per iteration, so the loop stands at the chunk of
\* 0-based position len(embeddings).
Ingest_Start ==
    /\ pc = "idle"
    /\ \E tcs \in HeaderChunkLists : text_chunks' = tcs
    /\ embeddings' = <<>>
    /\ fn' = "ingest"
    /\ pc' = "ingest_text"
    /\ text_embedding' = <<>>
    /\ embedLog' = <<>>
    /\ UNCHANGED <<outcome, chunkVars, query_embedding, corpus, k,
                   context_size, result, embedCalls,
                   cosVars, evalVars, threadVars>>

\* text_embedding = create_embeddings(chunk["text"])
Ingest_TextEmbedded ==
    /\ pc = "ingest_text"
    /\ Len(embeddings) < Len(text_chunks)
    /\ LET chunk == text_chunks[Len(embeddings) + 1] IN
       \E e \in Vectors :
        /\ text_embedding' = e
        /\ embedLog' = Append(embedLog, [input |-> chunk.text, output |-> e])
    /\ pc' = "ingest_header"
    /\ UNCHANGED <<fn, outcome, chunkVars, query_embedding, text_chunks,
                   embeddings, corpus, k, context_size, result, embedCalls,
                   cosVars, evalVars, threadVars>>

\* header_embedding = create_embeddings(chunk["header"]);
\* embeddings.append({...})
Ingest_HeaderEmbedded ==
    /\ pc = "ingest_header"
    /\ LET chunk == text_chunks[Len(embeddings) + 1] IN
       \E e \in HeaderVectors :
        /\ embeddings' = Append(embeddings, IngestRecord(chunk, text_embedding, e))
        /\ embedLog' = Append(embedLog, [input |-> chunk.header, output |-> e])
    /\ pc' = "ingest_text"
    /\ UNCHANGED <<fn, outcome, chunkVars, query_embedding, text_chunks,
                   corpus, k, context_size, result, embedCalls,
                   text_embedding,
                   cosVars, evalVars, threadVars>>

\* the iterator is exhausted: the cell ends
Ingest_Finish ==
    /\ pc = "ingest_text"
    /\ Len(embeddings) = Len(text_chunks)
    /\ pc' = "done"
    /\ outcome' = "returned"
    /\ UNCHANGED <<fn, chunkVars, searchVars>>

\* either create_embeddings call of an iteration raises: the loop has no
\* try/except, so the cell ends with the exception and `embeddings` keeps
\* the records of the chunks before the failing one.
Ingest_EmbeddingFails ==
    /\ pc \in {"ingest_text", "ingest_header"}
    /\ Len(embeddings) < Len(text_chunks)
    /\ pc' = "done"
    /\ outcome' = "EmbeddingError"
    /\ UNCHANGED <<fn, chunkVars, searchVars>>

NextIngest ==
    \/ Ingest_Start
    \/ Ingest_TextEmbedded
    \/ Ingest_HeaderEmbedded
    \/ Ingest_Finish
    \/ Ingest_EmbeddingFails

\* Another query over the same corpus: a finished search is followed by a
\* call of the same function with the same corpus arguments and k.
Requery ==
    /\ pc = "done"
    /\ fn \in {"context_enriched_search", "semantic_search",
               "retrieve_relevant_chunks"}
    /\ pc' = "embedding"
    /\ outcome' = "none"
    /\ query_embedding' = <<>>
    /\ result' = <<>>
    /\ embedCalls' = 1
    /\ UNCHANGED <<fn, chunkVars, text_chunks, embeddings, corpus, k,
                   context_size, ingestVars, cosVars, evalVars, threadVars>>

create_embeddings_Fails_ReturnsDefault ==
    /\ pc = "embedding"
    /\ outcome' = "returned"
    /\ pc' = "done"
    /\ UNCHANGED <<fn, chunkVars, searchVars>>

\* create_embeddings(query) raises: neither search catches it
create_embeddings_Fails ==
    /\ pc = "embedding"
    /\ outcome' = "EmbeddingError"
    /\ pc' = "done"
    /\ UNCHANGED <<fn, chunkVars, searchVars>>

NextSearch ==
    \/ context_enriched_search_Call
    \/ context_enriched_search_Embedded
    \/ semantic_search_Call
    \/ semantic_search_Embedded
    \/ retrieve_relevant_chunks_Call
    \/ retrieve_relevant_chunks_Embedded
    \/ retrieve_relevant_chunks_inline
    \/ Requery
    \/ create_embeddings_Fails

\* ------------------------------------------------ evaluate_response (03)
\* A reply text is a sequence of characters.  What the evaluator can answer:
\* the three scores asked for, other numerals, and texts that are no number.
ReplyTexts ==
    {<<"1", ".", "0">>, <<"0", ".", "5">>, <<"0", ".", "0">>,
     <<" ", "0", ".", "5", "\n">>, <<"1">>, <<"2">>, <<".", "5">>,
     <<"5", ".">>, <<"-", "1">>, <<"+", "1", ".", "0">>, <<"-", "0", ".", "0">>,
     <<"0", ".", "2", "5">>, <<"n", "a", "n">>, <<"-", "n", "a", "n">>,
     <<>>, <<" ">>, <<"n", "/", "a">>, <<"1", ".", "0", ".">>,
     <<"-", "-", "1">>, <<"-", " ", "1">>, <<"1", " ", "0">>, <<".">>,
     <<"-">>, <<"a">>, <<"0", ".", "5", "a">>, <<"1", ",", "0">>,
     <<"x", "1">>, <<"1", ".", ".", "0">>, <<"n", "a">>}

Whitespace == {" ", "\n", "\t"}
Digits == {"0", "1", "2", "5"}
DigitValue(c) == CASE c = "0" -> 0 [] c = "1" -> 1 [] c = "2" -> 2 [] c = "5" -> 5

\* str.strip(): leading and trailing whitespace removed
RECURSIVE PyStrip(_)
PyStrip(s) ==
    IF s = <<>> THEN s
    ELSE IF Head(s) \in Whitespace THEN PyStrip(Tail(s))
    ELSE IF s[Len(s)] \in Whitespace THEN PyStrip(SubSeq(s, 1, Len(s) - 1))
    ELSE s

\* int value of a sequence of digits
RECURSIVE IntOf(_)
IntOf(ds) ==
    IF ds = <<>> THEN 0
    ELSE IntOf(SubSeq(ds, 1, Len(ds) - 1)) * 10 + DigitValue(ds[Len(ds)])

RECURSIVE Pow10(_)
Pow10(e) == IF e = 0 THEN 1 ELSE 10 * Pow10(e - 1)

\* float(s) for a str s of the characters above: an optional sign, then
\* "nan" or a numeral of digits with at most one point and at least one
\* digit; anything else raises ValueError.  The value is the rational
\* num/den.
PyFloat(s) ==
    LET signed == s # <<>> /\ Head(s) \in {"+", "-"}
        r == IF signed THEN Tail(s) ELSE s
        sign == IF signed /\ Head(s) = "-" THEN 0 - 1 ELSE 1
        points == {p \in 1..Len(r) : r[p] = "."}
        ds == SelectSeq(r, LAMBDA c : c \in Digits)
    IN IF r = <<"n", "a", "n">> THEN Score("nan", 0, 0)
       ELSE IF /\ \A p \in 1..Len(r) : r[p] \in Digits \cup {"."}
               /\ Cardinality(points) <= 1
               /\ ds # <<>>
       THEN Score("num", sign * IntOf(ds),
                  IF points = {} THEN 1
                  ELSE Pow10(Len(r) - (CHOOSE p \in points : TRUE)))
       ELSE Score("ValueError", 0, 0)

\* try: score = float(content.strip())  except ValueError: score = 0.0
ParseScore_DefaultOne(content) ==
    LET v == PyFloat(PyStrip(content))
    IN IF v.kind = "ValueError" THEN Score("num", 1, 1) ELSE v
ParseScore(content) ==
    LET v == PyFloat(PyStrip(content))
    IN IF v.kind = "ValueError" THEN Score("num", 0, 1) ELSE v

\* the prompts are built (str.format raises nothing here) and the first
\* completion call is issued
evaluate_response_Call ==
    /\ pc = "idle"
    /\ fn' = "evaluate_response"
    /\ pc' = "eval_faith"
    /\ UNCHANGED <<outcome, chunkVars, searchVars>>

\* faith_resp arrives; the second completion call is issued
evaluate_response_FaithReplied ==
    /\ pc = "eval_faith"
    /\ \E content \in ReplyTexts : faith_reply' = content
    /\ pc' = "eval_rel"
    /\ UNCHANGED <<fn, outcome, chunkVars, query_embedding, text_chunks,
                   embeddings, corpus, k, context_size, result, embedCalls,
                   ingestVars, cosVars, rel_reply, faith_score, rel_score,
                   threadVars>>

\* rel_resp arrives; both scores are parsed and returned
evaluate_response_RelReplied ==
    /\ pc = "eval_rel"
    /\ \E content \in ReplyTexts :
        /\ rel_reply' = content
        /\ faith_score' = ParseScore(faith_reply)
        /\ rel_score' = ParseScore(content)
    /\ pc' = "done"
    /\ outcome' = "returned"
    /\ UNCHANGED <<fn, chunkVars, query_embedding, text_chunks,
                   embeddings, corpus, k, context_size, result, embedCalls,
                   ingestVars, cosVars, faith_reply, threadVars>>

\* either completion call raises: nothing catches it
evaluate_response_CompletionFails ==
    /\ pc \in {"eval_faith", "eval_rel"}
    /\ pc' = "done"
    /\ outcome' = "CompletionError"
    /\ UNCHANGED <<fn, chunkVars, searchVars>>

NextEvaluate ==
    \/ evaluate_response_Call
    \/ evaluate_response_FaithReplied
    \/ evaluate_response_RelReplied
    \/ evaluate_response_CompletionFails

\* ------------------------------------------ two searches running at once
\* Each call runs in its own frame: its query embedding and its scores list
\* are locals, a function of the thread.  The corpus is the one object both
\* threads refer to.

\* similarity_scores.append(...) / similarities.append(...) of thread t: the
\* list is the thread's own
LocalAppend_Shared(lists, t, x) == [u \in Threads |-> Append(lists[u], x)]
LocalAppend(lists, t, x) == [lists EXCEPT ![t] = Append(@, x)]

\* the corpus both threads will search is in place
Concurrent_Setup ==
    /\ pc = "idle"
    /\ \E cks \in ThreadCorpora :
        /\ corpus' = [p \in 1..Len(cks) |->
                        [header |-> CorpusHeader(p - 1),
                         text |-> CorpusText(p - 1),
                         embedding |-> cks[p].embedding,
                         header_embedding |-> cks[p].header_embedding]]
        /\ text_chunks' = [p \in 1..Len(cks) |-> CorpusText(p - 1)]
        /\ embeddings' = [p \in 1..Len(cks) |-> cks[p].embedding]
    /\ pc' = "concurrent"
    /\ fn' = "concurrent"
    /\ UNCHANGED <<outcome, chunkVars, query_embedding, k, context_size,
                   result, embedCalls, ingestVars, cosVars, evalVars,
                   threadVars>>

\* thread t calls semantic_search(query, corpus, k) or
\* context_enriched_search(query, text_chunks, embeddings, k, context_size)
Thread_Call(t) ==
    /\ pc = "concurrent"
    /\ tpc[t] = "idle"
    /\ \/ \E kk \in ThreadK :
            /\ tfn' = [tfn EXCEPT ![t] = "semantic_search"]
            /\ tk' = [tk EXCEPT ![t] = kk]
            /\ UNCHANGED tcontext
       \/ \E cs \in ThreadContext :
            /\ tfn' = [tfn EXCEPT ![t] = "context_enriched_search"]
            /\ tcontext' = [tcontext EXCEPT ![t] = cs]
            /\ UNCHANGED tk
    /\ tpc' = [tpc EXCEPT ![t] = "embedding"]
    /\ UNCHANGED <<pc, fn, outcome, chunkVars, query_embedding, text_chunks,
                   embeddings, corpus, k, context_size, result, embedCalls,
                   ingestVars, cosVars, evalVars, tquery, tscores, tresult,
                   toutcome>>

\* create_embeddings(query) answers thread t; its scores list is created
Thread_Embedded(t) ==
    /\ pc = "concurrent"
    /\ tpc[t] = "embedding"
    /\ \E q \in ThreadQueries : tquery' = [tquery EXCEPT ![t] = q]
    /\ tscores' = [tscores EXCEPT ![t] = <<>>]
    /\ tpc' = [tpc EXCEPT ![t] = "scoring"]
    /\ UNCHANGED <<pc, fn, outcome, chunkVars, query_embedding, text_chunks,
                   embeddings, corpus, k, context_size, result, embedCalls,
                   ingestVars, cosVars, evalVars, tfn, tk, tcontext, tresult,
                   toutcome>>

\* create_embeddings(query) raises in thread t
Thread_EmbeddingFails(t) ==
    /\ pc = "concurrent"
    /\ tpc[t] = "embedding"
    /\ toutcome' = [toutcome EXCEPT ![t] = "EmbeddingError"]
    /\ tpc' = [tpc EXCEPT ![t] = "done"]
    /\ UNCHANGED <<pc, fn, outcome, chunkVars, query_embedding, text_chunks,
                   embeddings, corpus, k, context_size, result, embedCalls,
                   ingestVars, cosVars, evalVars, tfn, tquery, tk, tcontext,
                   tscores, tresult>>

\* one iteration of the scoring loop of thread t, over the chunk at
\* position len(scores)
Thread_Score(t) ==
    /\ pc = "concurrent"
    /\ tpc[t] = "scoring"
    /\ Len(tscores[t]) < Len(corpus)
    /\ LET p == Len(tscores[t]) + 1
           score == IF tfn[t] = "semantic_search"
                    THEN AvgSimilarity(
                            cosine_similarity(tquery[t], corpus[p].embedding),
                            cosine_similarity(tquery[t],
                                              corpus[p].header_embedding))
                    ELSE cosine_similarity(tquery[t], embeddings[p])
       IN tscores' = LocalAppend(tscores, t, [index |-> p - 1, score |-> score])
    /\ UNCHANGED <<pc, fn, outcome, chunkVars, query_embedding, text_chunks,
                   embeddings, corpus, k, context_size, result, embedCalls,
                   ingestVars, cosVars, evalVars, tpc, tfn, tquery, tk,
                   tcontext, tresult, toutcome>>

\* the loop of thread t is over: sort, then slice (semantic_search) or take
\* the window around the first (context_enriched_search), and return
Thread_Return(t) ==
    /\ pc = "concurrent"
    /\ tpc[t] = "scoring"
    /\ Len(tscores[t]) >= Len(corpus)
    /\ LET sorted == SortDescending(tscores[t])
           top == TopK(sorted, tk[t])
           top_index == sorted[1].index
       IN tresult' = [tresult EXCEPT ![t] =
            IF tfn[t] = "semantic_search"
            THEN [j \in 1..Len(top) |-> top[j].index]
            ELSE PyRangeList(WindowStart(top_index, tcontext[t]),
                             WindowEnd(top_index, tcontext[t], Len(text_chunks)))]
    /\ toutcome' = [toutcome EXCEPT ![t] = "returned"]
    /\ tpc' = [tpc EXCEPT ![t] = "done"]
    /\ UNCHANGED <<pc, fn, outcome, chunkVars, query_embedding, text_chunks,
                   embeddings, corpus, k, context_size, result, embedCalls,
                   ingestVars, cosVars, evalVars, tfn, tquery, tk, tcontext,
                   tscores>>

NextConcurrent ==
    \/ Concurrent_Setup
    \/ \E t \in Threads : Thread_Call(t)
    \/ \E t \in Threads : Thread_Embedded(t)
    \/ \E t \in Threads : Thread_EmbeddingFails(t)
    \/ \E t \in Threads : Thread_Score(t)
    \/ \E t \in Threads : Thread_Return(t)

\* cosine_similarity(vec1, vec2) called directly.  np.dot raises ValueError
\* for arrays of different length; 0.0 / 0.0 gives nan with a
\* RuntimeWarning, not an exception.
cosine_similarity_Call ==
    /\ pc = "idle"
    /\ \E a \in AnyVectors, b \in AnyVectors :
        LET ret == cosine_similarity_rounded(a, b) IN
        /\ cos_vec1' = a
        /\ cos_vec2' = b
        /\ IF ret.kind = "ValueError"
             THEN outcome' = "ValueError" /\ similarity' = <<>>
             ELSE outcome' = "returned" /\ similarity' = ret
    /\ fn' = "cosine_similarity"
    /\ pc' = "done"
    /\ UNCHANGED <<chunkVars, ingestVars, query_embedding, text_chunks,
                   embeddings, corpus, k, context_size, result, embedCalls,
                   evalVars, threadVars>>

\* the searches over a corpus of mixed dimensions, and the direct calls
NextMixed ==
    \/ cosine_similarity_Call
    \/ context_enriched_search_MixedCall
    \/ context_enriched_search_Embedded
    \/ semantic_search_MixedCall
    \/ semantic_search_Embedded
    \/ retrieve_relevant_chunks_MixedCall
    \/ retrieve_relevant_chunks_Embedded
    \/ Requery
    \/ create_embeddings_Fails

Init ==
    /\ pc = "idle"
    /\ fn = "none"
    /\ outcome = "none"
    /\ text = <<>>
    /\ n = 1
    /\ overlap = 0
    /\ i = 0
    /\ chunks = <<>>
    /\ headerCalls = <<>>
    /\ query_embedding = <<>>
    /\ text_chunks = <<>>
    /\ embeddings = <<>>
    /\ corpus = <<>>
    /\ k = 1
    /\ context_size = 0
    /\ result = <<>>
    /\ embedCalls = 0
    /\ text_embedding = <<>>
    /\ embedLog = <<>>
    /\ cos_vec1 = <<>>
    /\ cos_vec2 = <<>>
    /\ similarity = <<>>
    /\ faith_reply = <<>>
    /\ rel_reply = <<>>
    /\ faith_score = <<>>
    /\ rel_score = <<>>
    /\ tpc = [t \in Threads |-> "idle"]
    /\ tfn = [t \in Threads |-> "none"]
    /\ tquery = [t \in Threads |-> <<>>]
    /\ tk = [t \in Threads |-> 1]
    /\ tcontext = [t \in Threads |-> 0]
    /\ tscores = [t \in Threads |-> <<>>]
    /\ tresult = [t \in Threads |-> <<>>]
    /\ toutcome = [t \in Threads |-> "none"]

Next == NextChunk \/ NextSearch \/ NextIngest \/ NextEvaluate

Spec == Init /\ [][Next]_vars

MixedSpec == Init /\ [][NextMixed]_vars

\* two threads searching one corpus, their steps interleaved in any order
ConcurrentSpec == Init /\ [][NextConcurrent]_vars

\* The interpreter runs a started loop to its end: an enabled iteration or
\* return of chunk_text is eventually executed.
FairChunkSpec ==
    /\ Init
    /\ [][NextChunk]_vars
    /\ WF_vars(chunk_text_Iter)
    /\ WF_vars(chunk_text_Return)

\* ------------------------------------------------------------ properties
ChunkFns == {"chunk_text", "chunk_text_with_headers"}
ValidConfig == n > 0 /\ 0 <= overlap /\ overlap < n
Returned(f) == pc = "done" /\ fn = f /\ outcome = "returned"
Raised == pc = "done" /\ outcome \notin {"none", "returned"}

\* C2: for size > 0 and 0 <= overlap < size, every character index of text
\* lies inside at least one chunk returned by chunk_text (the chunk that
\* starts at offset j*(size-overlap) holds the character of that index).
C2_Coverage ==
    (Returned("chunk_text") /\ ValidConfig) =>
        \A p \in 0..(Len(text) - 1) :
            \E j \in 0..(Len(chunks) - 1) :
                LET off == j * (n - overlap) IN
                /\ off <= p
                /\ p < off + Len(chunks[j + 1])
                /\ chunks[j + 1][p - off + 1] = text[p + 1]

C2_Witness ==
    /\ Returned("chunk_text") /\ ValidConfig
    /\ overlap >= 1 /\ Len(text) >= 3 /\ Len(chunks) >= 2

\* C3: for a valid configuration the j-th chunk (0-based) of chunk_text is
\* the substring of text from offset j*(size-overlap) up to
\* min(len(text), j*(size-overlap)+size); chunks are emitted in increasing
\* offset order from offset 0 until the offset reaches len(text).
C3_ChunkIsSubstring ==
    (fn = "chunk_text" /\ ValidConfig /\ pc \in {"loop", "done"}) =>
        /\ i = Len(chunks) * (n - overlap)
        /\ \A j \in 0..(Len(chunks) - 1) :
            /\ j * (n - overlap) < Len(text)
            /\ chunks[j + 1] = SubSeq(text, j * (n - overlap) + 1,
                                      PyMin(Len(text), j * (n - overlap) + n))
        /\ (pc = "done") => (outcome = "returned" /\ i >= Len(text))

C3_Witness ==
    /\ Returned("chunk_text") /\ ValidConfig
    /\ Len(chunks) >= 3 /\ overlap >= 1 /\ n >= 2
    /\ Len(chunks[Len(chunks)]) < n

\* The count and length part of C4: the number of chunks is the number of
\* offsets 0, step, 2*step, ... below len(text), i.e. ceil(len(text)/step)
\* with step = size-overlap; no chunk is longer than size and, for
\* non-empty text, the last chunk has length 1..size.
C4_CountAndLength ==
    (Returned("chunk_text") /\ ValidConfig) =>
        LET step == n - overlap IN
        /\ Len(chunks) = Cardinality({off \in 0..(Len(text) - 1) : off % step = 0})
        /\ Len(chunks) = (Len(text) + step - 1) \div step
        /\ \A j \in 1..Len(chunks) : Len(chunks[j]) <= n
        /\ (Len(text) > 0) =>
              (Len(chunks) >= 1 /\ Len(chunks[Len(chunks)]) >= 1)

\* C4: for a valid configuration chunk_text terminates (a started loop
\* leads to the return), and when it has returned the number of chunks is
\* ceil(len(text)/(size-overlap)), no chunk is longer than size and, for
\* non-empty text, the last chunk has length between 1 and size.
C4_Terminates ==
    /\ [](C4_CountAndLength)
    /\ (pc = "loop" /\ fn = "chunk_text" /\ ValidConfig) ~> Returned("chunk_text")

C4_Witness ==
    /\ Returned("chunk_text") /\ ValidConfig
    /\ Len(text) >= 3 /\ Len(chunks) >= 2
    /\ Len(chunks[Len(chunks)]) < n

\* C5: whenever overlap >= size, chunk_text and chunk_text_with_headers end
\* with an error before any chunk is produced and before any header call;
\* they never return a chunk list.  Stated for size >= 1 and a non-empty
\* text, where the overlap is the only thing wrong with the call.
C5_OverlapRejected ==
    (pc = "done" /\ fn \in ChunkFns /\ overlap >= n /\ n >= 1 /\ text # <<>>) =>
        (Raised /\ chunks = <<>> /\ headerCalls = <<>>)

\* C6: a chunk size <= 0, with any overlap, makes chunk_text and
\* chunk_text_with_headers end with an error before any work: no chunk
\* list is returned and no header call is made.  Stated for a non-empty
\* text and overlap >= 0, where the size is the only thing wrong.
C6_NonPositiveSizeRejected ==
    (pc = "done" /\ fn \in ChunkFns /\ n <= 0 /\ overlap >= 0 /\ text # <<>>) =>
        (Raised /\ chunks = <<>> /\ headerCalls = <<>>)

\* C7: for empty text and a valid configuration, chunk_text and
\* chunk_text_with_headers return an empty list, raise nothing and never
\* call the header collaborator.
C7_EmptyText ==
    (fn \in ChunkFns /\ text = <<>> /\ ValidConfig /\ pc \in {"loop", "done"}) =>
        /\ chunks = <<>>
        /\ headerCalls = <<>>
        /\ ~Raised
        /\ (pc = "done") => outcome = "returned"

C7_Witness ==
    /\ Returned("chunk_text_with_headers")
    /\ text = <<>> /\ ValidConfig /\ overlap >= 1

\* the score context_enriched_search gives the chunk at 0-based position p
ContextScore(p) == cosine_similarity(query_embedding, embeddings[p + 1])
\* no chunk of the corpus has a higher similarity to the query than chunk t
IsBestMatch(t) ==
    /\ t \in 0..(Len(embeddings) - 1)
    /\ \A p \in 0..(Len(embeddings) - 1) : ~ScoreLess(ContextScore(t), ContextScore(p))

\* C1: for a non-empty corpus with len(text_chunks) = len(embeddings) and
\* context_size >= 0, context_enriched_search returns exactly the chunks at
\* positions max(0, t-context_size) .. min(len-1, t+context_size), t a
\* top-ranked chunk, in ascending document order; every returned position is
\* in 0..len-1 and t is among them.
C1_NeighborWindow ==
    (pc = "done" /\ fn = "context_enriched_search" /\ Len(text_chunks) > 0
        /\ outcome # "EmbeddingError") =>
        /\ outcome = "returned"
        /\ \E t \in 0..(Len(text_chunks) - 1) :
            LET first == PyMax(0, t - context_size)
                last == PyMin(Len(text_chunks) - 1, t + context_size)
            IN /\ IsBestMatch(t)
               /\ Len(result) = last - first + 1
               /\ \A j \in 1..Len(result) : result[j] = first + j - 1
               /\ \E j \in 1..Len(result) : result[j] = t
        /\ \A j \in 1..Len(result) : result[j] >= 0 /\ result[j] < Len(text_chunks)

\* the best match is the last chunk and the window is clipped at the end
C1_Witness ==
    /\ Returned("context_enriched_search")
    /\ Len(text_chunks) >= 3 /\ context_size >= 1
    /\ result = <<1, 2>>
    /\ ScoreLess(ContextScore(1), ContextScore(2))

\* the best match is the first chunk and the window is clipped at the start
C1_WitnessStart ==
    /\ Returned("context_enriched_search")
    /\ Len(text_chunks) >= 3 /\ context_size = 1
    /\ result = <<0, 1>>
    /\ ScoreLess(ContextScore(1), ContextScore(0))

\* C8: with context_size = 0 on a non-empty corpus context_enriched_search
\* returns exactly one chunk, one whose embedding has the highest cosine
\* similarity to the query embedding.
C8_RadiusZero ==
    (Returned("context_enriched_search") /\ context_size = 0
        /\ Len(text_chunks) > 0) =>
        /\ Len(result) = 1
        /\ IsBestMatch(result[1])

C8_Witness ==
    /\ Returned("context_enriched_search") /\ context_size = 0
    /\ Len(text_chunks) >= 3
    /\ result = <<1>>
    /\ ScoreLess(ContextScore(0), ContextScore(1))
    /\ ScoreLess(ContextScore(2), ContextScore(1))

\* C9: context_enriched_search called with an empty corpus (no chunks, no
\* embeddings) ends with an error and returns no result.
C9_EmptyCorpusFails ==
    (pc = "done" /\ fn = "context_enriched_search"
        /\ Len(text_chunks) = 0 /\ Len(embeddings) = 0) =>
        /\ Raised
        /\ result = <<>>
        /\ (outcome # "EmbeddingError") => outcome = "IndexError"

C9_Witness ==
    /\ pc = "done" /\ fn = "context_enriched_search"
    /\ Len(text_chunks) = 0 /\ Len(embeddings) = 0
    /\ outcome = "IndexError" /\ query_embedding \in Vectors

\* C10: for every k >= 1 and every corpus semantic_search returns exactly
\* min(k, len(chunks)) chunks, each a distinct member of the corpus; when k
\* exceeds the corpus size the whole corpus is returned, with no error, no
\* padding and no duplicate.
C10_TopKCount ==
    (pc = "done" /\ fn = "semantic_search" /\ outcome # "EmbeddingError") =>
        /\ outcome = "returned"
        /\ Len(result) = PyMin(k, Len(corpus))
        /\ \A j \in 1..Len(result) : result[j] \in 0..(Len(corpus) - 1)
        /\ \A a, b \in 1..Len(result) : (a # b) => (result[a] # result[b])
        /\ (k >= Len(corpus)) =>
              {result[j] : j \in 1..Len(result)} = 0..(Len(corpus) - 1)

C10_Witness ==
    /\ Returned("semantic_search")
    /\ Len(corpus) = 2 /\ k > Len(corpus)
    /\ Len(result) = 2

\* k is smaller than the corpus
C10_WitnessTruncated ==
    /\ Returned("semantic_search")
    /\ Len(corpus) = 3 /\ k = 2
    /\ Len(result) = 2

\* The combined score of the chunk at 0-based position p of the corpus for
\* the current query, as the pair <<num, den>> (den > 0) of the rational
\* (cos(query, embedding) + cos(query, header_embedding)) / 2.
MeanScore(p) ==
    LET c == corpus[p + 1]
        nq == Norm(query_embedding)
        dt == nq * Norm(c.embedding)
        dh == nq * Norm(c.header_embedding)
    IN <<Dot(query_embedding, c.embedding) * dh
           + Dot(query_embedding, c.header_embedding) * dt,
         2 * dt * dh>>
RatLess(a, b) == a[1] * b[2] < b[1] * a[2]
RatEqual(a, b) == a[1] * b[2] = b[1] * a[2]

\* C11: the list semantic_search returns is ordered by non-increasing
\* combined score (the mean of the cosine of the query with the chunk's text
\* embedding and with its header embedding); every returned chunk scores at
\* least as high as every chunk not returned; chunks of equal combined score
\* appear in their original corpus order.
C11_Ranking ==
    Returned("semantic_search") =>
        /\ \A a, b \in 1..Len(result) :
            a < b =>
                /\ ~RatLess(MeanScore(result[a]), MeanScore(result[b]))
                /\ RatEqual(MeanScore(result[a]), MeanScore(result[b]))
                       => result[a] < result[b]
        /\ \A a \in 1..Len(result), p \in 0..(Len(corpus) - 1) :
            (\A b \in 1..Len(result) : result[b] # p) =>
                ~RatLess(MeanScore(result[a]), MeanScore(p))

\* two tied chunks are returned around a lower-scoring one that is not
C11_Witness ==
    /\ Returned("semantic_search")
    /\ Len(corpus) = 3 /\ k = 2
    /\ result = <<0, 2>>
    /\ RatEqual(MeanScore(0), MeanScore(2))
    /\ RatLess(MeanScore(1), MeanScore(0))

RetrieveFns == {"retrieve_relevant_chunks", "retrieve_relevant_chunks_inline"}

\* C12: retrieve_relevant_chunks returns the min(k, len) chunks of highest
\* cosine similarity to the query, sorted by descending similarity, and
\* among chunks of equal similarity the one of lower original index comes
\* first.
C12_TopKStable ==
    (pc = "done" /\ fn \in RetrieveFns /\ outcome = "returned") =>
        /\ Len(result) = PyMin(k, Len(text_chunks))
        /\ \A a, b \in 1..Len(result) :
            a < b =>
                /\ ~ScoreLess(ContextScore(result[a]), ContextScore(result[b]))
                /\ ~ScoreLess(ContextScore(result[b]), ContextScore(result[a]))
                       => result[a] < result[b]
        /\ \A a \in 1..Len(result), p \in 0..(Len(text_chunks) - 1) :
            (\A b \in 1..Len(result) : result[b] # p) =>
                ~ScoreLess(ContextScore(result[a]), ContextScore(p))

\* the count, descending order and top-k membership alone, which the
\* function does satisfy
C12_TopKUnordered ==
    (pc = "done" /\ fn \in RetrieveFns /\ outcome = "returned") =>
        /\ Len(result) = PyMin(k, Len(text_chunks))
        /\ \A a, b \in 1..Len(result) :
            a < b => ~ScoreLess(ContextScore(result[a]), ContextScore(result[b]))
        /\ \A a \in 1..Len(result), p \in 0..(Len(text_chunks) - 1) :
            (\A b \in 1..Len(result) : result[b] # p) =>
                ~ScoreLess(ContextScore(result[a]), ContextScore(p))

\* C13: a failing header call (or header embedding call) for one chunk does
\* not stop ingestion: chunk_text_with_headers still returns every chunk of
\* the text (the failing one with a sentinel header), and the embedding loop
\* still stores one record per chunk.
C13_HeaderFailureTolerated ==
    /\ (pc = "done" /\ fn = "chunk_text_with_headers" /\ ValidConfig) =>
          /\ outcome = "returned"
          /\ Len(chunks) = (Len(text) + (n - overlap) - 1) \div (n - overlap)
    /\ (pc = "done" /\ fn = "ingest") =>
          /\ outcome = "returned"
          /\ Len(embeddings) = Len(text_chunks)

\* C19: when the header-mode embedding loop has completed, the stored
\* records are in original chunk order and one per chunk: record i carries
\* the text and header of chunk i, the answer create_embeddings gave for
\* that text and the answer it gave for that header.
C19_RecordsInChunkOrder ==
    Returned("ingest") =>
        /\ Len(embeddings) = Len(text_chunks)
        /\ Len(embedLog) = 2 * Len(text_chunks)
        /\ \A p \in 1..Len(text_chunks) :
            /\ embeddings[p].text = text_chunks[p].text
            /\ embeddings[p].header = text_chunks[p].header
            /\ embedLog[2 * p - 1].input = text_chunks[p].text
            /\ embeddings[p].embedding = embedLog[2 * p - 1].output
            /\ embedLog[2 * p].input = text_chunks[p].header
            /\ embeddings[p].header_embedding = embedLog[2 * p].output

\* three chunks, the first two differing in text, header and both
\* embeddings
C19_Witness ==
    /\ Returned("ingest")
    /\ Len(text_chunks) = 3
    /\ text_chunks[1].header # text_chunks[2].header
    /\ embeddings[1].embedding # embeddings[2].embedding
    /\ embeddings[1].header_embedding # embeddings[2].header_embedding
    /\ embeddings[1].embedding # embeddings[1].header_embedding

SearchFns == {"context_enriched_search", "semantic_search",
              "retrieve_relevant_chunks"}

\* the scoring loop of the finished search met a stored embedding whose
\* length differs from the query embedding's
HitMismatch ==
    /\ pc = "done" /\ fn \in SearchFns /\ outcome # "EmbeddingError"
    /\ IF fn = "semantic_search"
         THEN \E p \in 1..Len(corpus) :
                \/ Len(corpus[p].embedding) # Len(query_embedding)
                \/ Len(corpus[p].header_embedding) # Len(query_embedding)
         ELSE \E p \in 1..Len(embeddings) :
                Len(embeddings[p]) # Len(query_embedding)

\* C14: cosine_similarity called with two vectors of different length ends
\* with an error and returns no score; a retrieval call whose scoring meets
\* such a pair ends with that error as a whole and returns no ranked result.
C14_MismatchFails ==
    /\ (pc = "done" /\ fn = "cosine_similarity" /\ Len(cos_vec1) # Len(cos_vec2)) =>
          (outcome = "ValueError" /\ similarity = <<>>)
    /\ HitMismatch => (outcome = "ValueError" /\ result = <<>>)

\* the second chunk's header embedding is the one of the wrong length
C14_Witness ==
    /\ HitMismatch /\ fn = "semantic_search" /\ outcome = "ValueError"
    /\ Len(corpus) = 2
    /\ Len(corpus[1].embedding) = Len(query_embedding)
    /\ Len(corpus[1].header_embedding) = Len(query_embedding)
    /\ Len(corpus[2].embedding) = Len(query_embedding)

C14_WitnessDirect ==
    /\ pc = "done" /\ fn = "cosine_similarity" /\ outcome = "ValueError"
    /\ Len(cos_vec1) = 3 /\ Len(cos_vec2) = 2

\* C15: cosine_similarity with an argument of zero norm either ends with an
\* error or returns a number; it never returns the undefined value of 0/0.
C15_ZeroNormDefined ==
    (pc = "done" /\ fn = "cosine_similarity"
        /\ Len(cos_vec1) = Len(cos_vec2)
        /\ (Dot(cos_vec1, cos_vec1) = 0 \/ Dot(cos_vec2, cos_vec2) = 0)) =>
        \/ Raised
        \/ (outcome = "returned" /\ similarity.kind = "num")

\* reply texts that are no number: empty or blank text, words, numerals
\* with a stray character, a second point or sign, or an inner blank
NonNumericReplies ==
    {<<>>, <<" ">>, <<"n", "/", "a">>, <<"1", ".", "0", ".">>,
     <<"-", "-", "1">>, <<"-", " ", "1">>, <<"1", " ", "0">>, <<".">>,
     <<"-">>, <<"a">>, <<"0", ".", "5", "a">>, <<"1", ",", "0">>,
     <<"x", "1">>, <<"1", ".", ".", "0">>, <<"n", "a">>}
IsZeroScore(v) == v # <<>> /\ v.kind = "num" /\ v.num = 0

\* C16: evaluate_response does not raise because of what the evaluator
\* replied: once both replies have arrived it returns, and a reply text
\* that is no number gives the score 0.0 for that reply alone (faithfulness
\* and relevancy are parsed independently).
C16_MalformedReplyIsZero ==
    (pc = "done" /\ fn = "evaluate_response" /\ outcome # "CompletionError") =>
          /\ outcome = "returned"
          /\ faith_reply \in NonNumericReplies => IsZeroScore(faith_score)
          /\ rel_reply \in NonNumericReplies => IsZeroScore(rel_score)
          /\ faith_reply = <<" ", "0", ".", "5", "\n">> =>
                (faith_score.num = 5 /\ faith_score.den = 10)
          /\ rel_reply = <<"1", ".", "0">> =>
                (rel_score.num = 10 /\ rel_score.den = 10)

\* a malformed faithfulness reply next to a well-formed relevancy reply
C16_Witness ==
    /\ Returned("evaluate_response")
    /\ faith_reply = <<"n", "/", "a">>
    /\ rel_reply = <<"1", ".", "0">>
    /\ IsZeroScore(faith_score)
    /\ rel_score.num = 10

\* the other way round
C16_WitnessRelevancy ==
    /\ Returned("evaluate_response")
    /\ faith_reply = <<"0", ".", "5">>
    /\ rel_reply = <<>>
    /\ faith_score.num = 5
    /\ IsZeroScore(rel_score)

\* C17: no step of a retrieval call (context_enriched_search,
\* semantic_search, retrieve_relevant_chunks), in any sequence of queries
\* over a corpus, changes the chunk list, its order, a chunk's text or
\* header or a stored embedding; and every element of a returned list is
\* one of the corpus's own chunks (a position of the unchanged corpus).
C17_CorpusReadOnly ==
    /\ [][(fn \in SearchFns) =>
            (corpus' = corpus /\ text_chunks' = text_chunks
             /\ embeddings' = embeddings)]_vars
    /\ [](\A f \in SearchFns :
            Returned(f) =>
                \A j \in 1..Len(result) :
                    /\ result[j] >= 0
                    /\ result[j] < (IF f = "semantic_search" THEN Len(corpus)
                                    ELSE Len(text_chunks)))

\* a finished search whose ranking is not the corpus order: the best chunk
\* is the last of the corpus, which still stands in its original place
C17_Witness ==
    /\ Returned("semantic_search")
    /\ Len(corpus) = 3 /\ k = 3
    /\ result = <<2, 0, 1>>
    /\ RatLess(MeanScore(0), MeanScore(2))
    /\ RatLess(MeanScore(1), MeanScore(0))

\* C20: when the embedding collaborator fails on the query, the retrieval
\* call (context_enriched_search, semantic_search,
\* retrieve_relevant_chunks) ends with that error: the step in which the
\* pending query embedding is not obtained ends the call with an exception,
\* with no returned list, and leaves the corpus as it was.
C20_QueryEmbeddingFailure ==
    /\ [][(pc = "embedding" /\ fn \in SearchFns /\ query_embedding' = <<>>
            /\ pc' = "done") =>
            (/\ outcome' = "EmbeddingError"
             /\ result' = <<>>
             /\ corpus' = corpus
             /\ text_chunks' = text_chunks
             /\ embeddings' = embeddings)]_vars
    /\ []((pc = "done" /\ fn \in SearchFns /\ outcome = "EmbeddingError") =>
            (Raised /\ result = <<>>))

\* the failure hits a query over a corpus of two chunks
C20_Witness ==
    /\ pc = "done" /\ fn = "retrieve_relevant_chunks"
    /\ outcome = "EmbeddingError"
    /\ Len(embeddings) = 2 /\ k = 2
    /\ query_embedding = <<>> /\ result = <<>>

C20_WitnessSemantic ==
    /\ pc = "done" /\ fn = "semantic_search"
    /\ outcome = "EmbeddingError"
    /\ Len(corpus) = 3
    /\ query_embedding = <<>> /\ result = <<>>

\* what thread t's call returns when it runs alone over the corpus
AloneResult(t) ==
    IF tfn[t] = "semantic_search"
    THEN semantic_search(tquery[t], corpus, tk[t]).result
    ELSE context_enriched_search(tquery[t], text_chunks, embeddings, tk[t],
                                 tcontext[t]).result
\* the scores thread t's loop computes when it runs alone
AloneScores(t) ==
    IF tfn[t] = "semantic_search"
    THEN CombinedScores(tquery[t], corpus)
    ELSE SimilarityScores(tquery[t], embeddings)

\* C18: two retrieval calls running at once over the same corpus and
\* embeddings, their steps interleaved in any order, each return what the
\* same call returns when run alone; while a call is scoring, its list holds
\* exactly the scores of the chunks it has visited itself.
C18_ConcurrentCallsIndependent ==
    \A t \in Threads :
        /\ (tpc[t] = "scoring") =>
              /\ Len(tscores[t]) <= Len(corpus)
              /\ tscores[t] = SubSeq(AloneScores(t), 1, Len(tscores[t]))
        /\ (tpc[t] = "done" /\ toutcome[t] = "returned") =>
              tresult[t] = AloneResult(t)

\* both calls are in the middle of their scoring loops at the same time
C18_Witness ==
    /\ Len(corpus) = 2
    /\ tpc[1] = "scoring" /\ tpc[2] = "scoring"
    /\ Len(tscores[1]) = 1 /\ Len(tscores[2]) = 1
    /\ tfn[1] = "semantic_search" /\ tfn[2] = "context_enriched_search"
    /\ tquery[1] # tquery[2]

\* both calls have returned, with different results
C18_WitnessBothReturned ==
    /\ Len(corpus) = 2
    /\ tpc[1] = "done" /\ tpc[2] = "done"
    /\ toutcome[1] = "returned" /\ toutcome[2] = "returned"
    /\ tfn[1] = "semantic_search" /\ tfn[2] = "semantic_search"
    /\ tresult[1] = <<1, 0>> /\ tresult[2] = <<0, 1>>

\* ---- C21, C22: the values of cosine_similarity
DirectCall == pc = "done" /\ fn = "cosine_similarity" /\ outcome = "returned"

Negated(vec) == [j \in 1..Len(vec) |-> 0 - vec[j]]

IsValue(s, v) == s.kind = "num" /\ s.num = v * s.den

\* C21: for equal-length vectors of non-zero norm cosine_similarity is
\* symmetric, returns 1 for a vector against itself and -1 for a vector
\* against its negation.
C21_SymmetricUnitValues ==
    (DirectCall /\ similarity.kind = "num") =>
        /\ similarity = cosine_similarity_rounded(cos_vec2, cos_vec1)
        /\ (cos_vec2 = cos_vec1) => IsValue(similarity, 1)
        /\ (cos_vec2 = Negated(cos_vec1)) => IsValue(similarity, 0 - 1)

\* C22: every number cosine_similarity returns lies in [-1, 1].
C22_WithinUnitInterval ==
    (DirectCall /\ similarity.kind = "num") =>
        (0 - similarity.den <= similarity.num /\ similarity.num <= similarity.den)

\* ---- C23: ties for the highest similarity
\* the lowest position whose similarity no other position exceeds
FirstBestMatch == CHOOSE t \in 0..(Len(embeddings) - 1) :
    IsBestMatch(t) /\ \A p \in 0..(t - 1) : ~IsBestMatch(p)

\* C23: when several chunks tie for the highest similarity,
\* context_enriched_search centres its window on the tied chunk of lowest
\* index, so the window is determined by the query embedding, the corpus
\* and context_size alone and is the same on every call.
C23_FirstOfTies ==
    (Returned("context_enriched_search") /\ Len(embeddings) > 0) =>
        result = PyRangeList(PyMax(0, FirstBestMatch - context_size),
                             PyMin(Len(text_chunks),
                                   FirstBestMatch + context_size + 1))

\* chunks 1 and 2 tie for the highest similarity, above chunk 0; the window
\* of radius 0 is chunk 1
C23_Witness ==
    /\ Returned("context_enriched_search")
    /\ Len(embeddings) = 3 /\ context_size = 0
    /\ ContextScore(1) = ContextScore(2)
    /\ ScoreLess(ContextScore(0), ContextScore(1))
    /\ result = <<1>>

\* ---- C24: the parameter k of context_enriched_search
\* C24: k is the number of top-ranked chunks context_enriched_search
\* retrieves: with no neighbours asked for (context_size = 0) the call
\* returns min(k, len) chunks, so a different k returns different chunks.
C24_KChunksRetrieved ==
    (Returned("context_enriched_search") /\ context_size = 0) =>
        Len(result) = PyMin(k, Len(text_chunks))

\* ---- C25: chunk_text with overlap >= n
OverlapTooLarge == fn = "chunk_text" /\ n >= 1 /\ overlap >= n

\* C25 as stated: with overlap >= n chunk_text loops forever, it neither
\* returns a chunk list nor raises.
C25_LoopsForever == OverlapTooLarge => pc # "done"

C25_Outcome ==
    OverlapTooLarge =>
        /\ chunks = <<>>
        /\ (pc = "done" /\ overlap = n) => outcome = "ValueError"
        /\ (pc = "done" /\ overlap > n) => outcome = "returned"

\* C25: with overlap >= n chunk_text always ends and never produces a
\* chunk: for overlap = n range() raises ValueError (step 0) before the
\* first iteration, for overlap > n the range of negative step is empty
\* and the empty list is returned.
C25_EndsWithoutChunks ==
    /\ [](C25_Outcome)
    /\ (pc = "loop" /\ OverlapTooLarge) ~> (pc = "done" /\ OverlapTooLarge)

\* overlap > n on a non-empty text: the empty list came back
C25_Witness ==
    /\ Returned("chunk_text") /\ n >= 1 /\ overlap > n
    /\ Len(text) >= 2 /\ chunks = <<>>

\* ---- C26: one embedding call per retrieval call
RetrievalFns == {"context_enriched_search", "semantic_search"}

\* C26: every call of context_enriched_search or semantic_search has made
\* exactly one create_embeddings call, for the query, whatever the corpus
\* size, k and context_size; while that call is outstanding no similarity
\* has been computed and nothing has been ranked.
C26_OneEmbeddingCall ==
    (fn \in RetrievalFns /\ pc \in {"embedding", "done"}) =>
        /\ embedCalls = 1
        /\ (pc = "embedding") =>
              (query_embedding = <<>> /\ result = <<>> /\ outcome = "none")

\* a semantic_search over three chunks that returned two of them
C26_Witness ==
    /\ Returned("semantic_search")
    /\ Len(corpus) = 3 /\ k = 2 /\ Len(result) = 2
    /\ embedCalls = 1

\* a context_enriched_search over three chunks with the widest radius
C26_WitnessContext ==
    /\ Returned("context_enriched_search")
    /\ Len(embeddings) = 3 /\ context_size = MaxContext /\ Len(result) = 3
    /\ embedCalls = 1

\* ---- C27: the range of the scores of evaluate_response
\* one of SCORE_NONE = 0.0, SCORE_PARTIAL = 0.5, SCORE_FULL = 1.0
IsRubricScore(v) ==
    /\ v.kind = "num"
    /\ \/ v.num = 0
       \/ 2 * v.num = v.den
       \/ v.num = v.den

\* C27: whatever the evaluator replied, each of the two scores
\* evaluate_response returns is 0.0, 0.5 or 1.0.
C27_ScoresInRubric ==
    Returned("evaluate_response") =>
        (IsRubricScore(faith_score) /\ IsRubricScore(rel_score))

RECURSIVE Reassemble(_, _)
Reassemble(cks, keep) ==
    IF cks = <<>> THEN <<>>
    ELSE SubSeq(Head(cks), 1, PyMin(keep, Len(Head(cks))))
             \o Reassemble(Tail(cks), keep)

\* C29: for a valid configuration, concatenating in order the first
\* size - overlap characters of every chunk chunk_text returned (the whole
\* chunk when it is shorter) gives back the text.
C29_RoundTrip ==
    (Returned("chunk_text") /\ ValidConfig) =>
        Reassemble(chunks, n - overlap) = text

\* overlapping chunks, the last one shorter than the step
C29_Witness ==
    /\ Returned("chunk_text") /\ ValidConfig
    /\ overlap >= 1 /\ n - overlap >= 2
    /\ Len(chunks) >= 2
    /\ Len(chunks[Len(chunks)]) < n - overlap
    /\ \E p \in 1..(Len(text) - 1) : text[p] # text[p + 1]

\* ---- C30: no chunk inside its predecessor
\* one past the last text position covered by the j-th chunk (1-based)
ChunkEnd(j) == (j - 1) * (n - overlap) + Len(chunks[j])

====
